---- MODULE Spec2Model ----
(***************************************************************************)
(* Replicant (src/replicant.cmajor): a graph of three processors, Bass,    *)
(* Lead and Delay, rendered one frame at a time.                           *)
(*                                                                         *)
(* Number representation.  The program computes in float32/float64; the    *)
(* model computes in integers:                                             *)
(*   - a phase is counted in units of 1/(100*rate), so one full cycle is   *)
(*     PhaseOne(rate) and period*0.8, period*0.3 and frequency*period are  *)
(*     whole numbers of units (frequencies in centihertz);                 *)
(*   - the Lead envelope accumulator is counted in units of 1/rate         *)
(*     (= processor.period), the Bass envelope in units of                 *)
(*     1/samplesPerQuarterNote;                                            *)
(*   - an audio sample that needs cos, sin or pow is kept as a symbol: the *)
(*     non-silent sample a voice writes in frame f is the number f+1, and  *)
(*     0 is the silent sample.  A value of the Delay is a polynomial in    *)
(*     feedbackLevel over such symbols, written as the sequence of its     *)
(*     coefficients <<c0, c1, ...>> = c0 + c1*fb + c2*fb^2 + ...; << >> is *)
(*     zero.                                                               *)
(* Float rounding is outside the model.                                    *)
(***************************************************************************)
EXTENDS Integers, Sequences, FiniteSets, TLC

\* ------------------------------------------------------------------ bounds
\* Frames rendered per run.
MaxTicks == 530

\* Sample rates the engine is started with: one below the clock divisor
\* (samplesPerQuarterNote 0), samplesPerQuarterNote 1 and 2 (the Lead pattern
\* wraps inside MaxTicks) and the two ends of the supported range.
Rates == {5, 9, 18, 44100, 192000}

\* The supported range of sample rates.
MinRate == 44100
MaxRate == 192000
SupportedRates == MinRate..MaxRate

\* ------------------------------------------------------- program constants
clock == 9

\* float[44100] buffer; wrap<44100> bufferIdx
BufferSize == 44100

\* 3.98f is the float32 8346665 / 2097152
Float398Num == 8346665

Float398Den == 2097152

\* delay = Delay (0.35f): feedbackLevel as the fraction 7 / 20
FeedbackNum == 7

FeedbackDen == 20

\* triggerArray with a sixteenth 1 cell, at step 8.
triggerArrayExtraStep ==
    <<1,0,0,0,0,0,0,0,1,0,0,0,0,0,0,0,
      1,0,0,0,0,0,0,0,1,0,0,0,0,0,0,0,
      1,0,0,0,0,0,0,0,0,0,0,0,0,0,0,0,
      0,0,0,0,0,0,0,0,0,0,0,0,0,0,0,0,
      1,0,0,0,0,0,0,0,0,0,0,0,0,0,0,0,
      1,0,0,0,0,0,0,0,1,0,0,0,0,0,0,0,
      1,0,0,0,0,0,0,0,0,0,0,0,0,0,0,0,
      0,0,0,0,0,0,0,0,0,0,0,0,0,0,0,0,
      1,0,0,0,0,0,0,0,0,0,0,0,0,0,0,0,
      1,0,0,0,0,0,0,0,1,0,0,0,0,0,0,0,
      1,0,0,0,0,0,0,0,0,0,0,0,0,0,0,0,
      0,0,0,0,0,0,0,0,1,0,0,0,1,0,0,0,
      1,0,0,0,0,0,0,0,0,0,0,0,0,0,0,0,
      0,0,0,0,0,0,0,0,0,0,0,0,0,0,0,0,
      0,0,0,0,0,0,0,0,0,0,0,0,0,0,0,0,
      0,0,0,0,0,0,0,0,0,0,0,0,0,0,0,0>>

triggerArray ==
    <<1,0,0,0,0,0,0,0,0,0,0,0,0,0,0,0,
      1,0,0,0,0,0,0,0,1,0,0,0,0,0,0,0,
      1,0,0,0,0,0,0,0,0,0,0,0,0,0,0,0,
      0,0,0,0,0,0,0,0,0,0,0,0,0,0,0,0,
      1,0,0,0,0,0,0,0,0,0,0,0,0,0,0,0,
      1,0,0,0,0,0,0,0,1,0,0,0,0,0,0,0,
      1,0,0,0,0,0,0,0,0,0,0,0,0,0,0,0,
      0,0,0,0,0,0,0,0,0,0,0,0,0,0,0,0,
      1,0,0,0,0,0,0,0,0,0,0,0,0,0,0,0,
      1,0,0,0,0,0,0,0,1,0,0,0,0,0,0,0,
      1,0,0,0,0,0,0,0,0,0,0,0,0,0,0,0,
      0,0,0,0,0,0,0,0,1,0,0,0,1,0,0,0,
      1,0,0,0,0,0,0,0,0,0,0,0,0,0,0,0,
      0,0,0,0,0,0,0,0,0,0,0,0,0,0,0,0,
      0,0,0,0,0,0,0,0,0,0,0,0,0,0,0,0,
      0,0,0,0,0,0,0,0,0,0,0,0,0,0,0,0>>

pitchArray == <<69,67,65,64,67,66,64,62,65,64,62,57,55,60,57>>

arp == <<57,57,59,60>>

rootNotes == <<0,0,7,2,5,5,0,0>>

\* Moduli of the wrap<N> index types.
LeadSteps == 256
PitchSteps == 15
BassSteps == 32
RootSteps == 8

\* ---------------------------------------------------------- pure functions
\* wrap<n>(x) and wrap(x, n): x modulo n, in 0..n-1 also for negative x.
wrap(x, n) == x % n

clamp(x, lo, hi) == IF x < lo THEN lo ELSE IF x > hi THEN hi ELSE x

abs(x) == IF x < 0 THEN -x ELSE x

\* One cycle of phase, in phase units, at sample rate r.
PhaseOne(r) == 100 * r

\* std::notes::noteToFrequency for a whole note number up to 71, in
\* centihertz: 440 * 2^((note-69)/12).  The table is the octave 60..71.
OctaveCentiHz == <<26163, 27718, 29366, 31113, 32963, 34923,
                   36999, 39200, 41530, 44000, 46616, 49388>>

RECURSIVE Pow2(_)
Pow2(k) == IF k <= 0 THEN 1 ELSE 2 * Pow2(k - 1)

noteToFrequency(note) == OctaveCentiHz[(note % 12) + 1] \div Pow2(5 - (note \div 12))

\* noteToFrequency (note + 0.1f): the factor 2^(0.1/12) = 1.005793.
noteToFrequencyDetuned(note) ==
    noteToFrequency(note) + (noteToFrequency(note) * 5793) \div 1000000

\* int (processor.frequency / clock)
samplesPerQuarterNoteOf(r) == r \div clock

\* int ((processor.frequency / clock) * 3.98f), exactly
\* floor(r * Float398Num / (clock * Float398Den)); the product is split at
\* 2^12 to stay inside 32 bits (8346665 = 2037 * 4096 + 3113,
\* 9 * 2097152 = 4096 * 4608).
delayTimeOf(r) ==
    (r * (Float398Num \div 4096) + (r * (Float398Num % 4096)) \div 4096)
        \div ((clock * Float398Den) \div 4096)

\* pwm without the clamp of pw.
pwmNoClamp(phase, pw, one) ==
    ((phase + (wrap(phase + pw, one) * (-1)) + pw) * 2) - one

\* pwm(phase, pw), phase and pw in phase units of one, result in the same
\* units (one = +1.0).
pwm(phase, pw, one) ==
    LET w == clamp(pw, one \div 100, (99 * one) \div 100)
    IN  ((phase + (wrap(phase + w, one) * (-1)) + w) * 2) - one

triangle(phase, one) == one - abs((phase * 2) - one)

\* processPhasor returning the phase it was called with.
processPhasorPreAdvance(phase, phaseIncr, one) ==
    [phase |-> wrap(phase + phaseIncr, one), value |-> phase]

\* processPhasor: phase is the new value of the float& argument, value is the
\* value returned.
processPhasor(phase, phaseIncr, one) ==
    LET p == wrap(phase + phaseIncr, one)
    IN  [phase |-> p, value |-> p]

\* processSmoother: outm1 in units of 1/(100*rate), in in units of 1/rate, so
\* in*0.01 is in whole units; the product with 0.99 is truncated.
processSmoother(outm1, in) == in + (99 * outm1) \div 100

\* ----------------------------------------------------- sample polynomials
Zero == << >>

\* The stream value x (a voice's sample symbol) as a polynomial.
Const(x) == IF x = 0 THEN Zero ELSE <<x>>

\* v * feedbackLevel
TimesFeedback(v) == IF v = Zero THEN Zero ELSE <<0>> \o v

\* audioIn + v, for v a multiple of feedbackLevel (no constant term)
PlusIn(audioIn, v) ==
    IF v = Zero THEN Const(audioIn) ELSE <<audioIn>> \o Tail(v)

\* ------------------------------------------------------------------ state
VARIABLES
    rate,       \* processor.frequency
    pc,         \* "load" before the processors' main() have started, then "run"
    tick,       \* frames the graph has emitted
    bass,       \* the locals of Bass.main
    lead,       \* the locals of Lead.main
    delay,      \* the locals of Delay.main
    bassOut,    \* stream bass.out: the sample and the frame it was written in
    leadOut,    \* stream lead.out
    audioOut,   \* stream delay.audioOut
    out,        \* stream out of the graph: the terms summed in the last frame
    hist,       \* what the Delay has read from audioIn and written to audioOut
    phasor,     \* a phase accumulator on its own, and its last processPhasor call
    probe,      \* the last call of pwm on its own: its arguments and its result
    gui         \* a parameter control, the PatchConnections and the last call

vars == <<rate, pc, tick, bass, lead, delay, bassOut, leadOut, audioOut, out,
          hist, phasor, probe, gui>>

\* The symbol of the non-silent sample a voice computes in frame f.
Sample(f) == f + 1

Silent == [value |-> 0, frame |-> -1]

\* Cmajor zero-initialises every local.  buffer holds the cells that have been
\* written; every other cell of float[44100] buffer is 0.
DelayInit ==
    [buffer |-> [i \in {} |-> Zero], bufferIdx |-> 0, last |-> Zero,
     delayTime |-> 0, inFrame |-> -1, frame |-> 0]

LeadInit ==
    [samplesPerQuarterNote |-> 0, playHead |-> 0, pitchIdx |-> 0, trig |-> FALSE,
     osc1PhaseIncr |-> 0, osc2PhaseIncr |-> 0,
     osc1Phasor |-> 0, osc2Phasor |-> 0, lfoPhasor |-> 0,
     envPhasor |-> 0, envPhaseIncr |-> 0, smootherOutm1 |-> 0,
     lfoPhaseIncr |-> 0, basePitch |-> 0, gate |-> 0,
     triggerArray |-> << >>, pitchArray |-> << >>,
     noteLength |-> 0, count |-> 0, pos |-> "top", frame |-> 0]

BassInit ==
    [samplesPerQuarterNote |-> 0,
     osc1Phasor |-> 0, osc2Phasor |-> 0, lfoPhasor |-> 0,
     rootIdx |-> 0, playHead |-> 0,
     note |-> 0, noteLength |-> 0,
     osc1PhaseIncr |-> 0, osc2PhaseIncr |-> 0, lfoPhaseIncr |-> 0,
     env |-> 0, envApplied |-> 0, pulse |-> 0,
     arp |-> << >>, rootNotes |-> << >>,
     count |-> 0, pos |-> "top", frame |-> 0]

\* pwm before its first call on its own.
ProbeInit ==
    [phase |-> 0, width |-> 0, lfo |-> -1, value |-> 0, called |-> FALSE]

\* JavaScript values: undefined and the numbers.
Undefined == [kind |-> "undefined", v |-> 0]

Num(n) == [kind |-> "number", v |-> n]

\* No PatchConnection, no endpointInfo, no listener.
NoConnection == "undefined"

NoEndpoint == [defined |-> FALSE, endpointID |-> "", init |-> Undefined,
               defaultValue |-> Undefined]

NoListener == [defined |-> FALSE, id |-> 0, endpointID |-> ""]

\* A control after its constructor, not in the document: every field it reads
\* is undefined.  listeners is what the PatchConnections have registered, sent
\* the messages the last call handed to a PatchConnection, last that call.
ParameterControlBase ==
    [patchConnection |-> NoConnection, endpointInfo |-> NoEndpoint,
     defaultValue |-> Undefined, listener |-> NoListener, isConnected |-> FALSE,
     listeners |-> {}, sent |-> << >>,
     last |-> [op |-> "constructor", value |-> Undefined, threw |-> FALSE]]

InitEngine(rates) ==
    /\ rate \in rates
    /\ pc = "load"
    /\ tick = 0
    /\ bass = BassInit
    /\ lead = LeadInit
    /\ delay = DelayInit
    /\ bassOut = Silent
    /\ leadOut = Silent
    /\ audioOut = [value |-> Zero, frame |-> -1]
    /\ out = [bass |-> Silent, lead |-> Silent,
              delay |-> [value |-> Zero, frame |-> -1]]
    /\ hist = [in |-> << >>, out |-> << >>]
    /\ phasor = [phase |-> 0, value |-> 0, before |-> 0, incr |-> 0,
                 called |-> FALSE]

InitWith(rates) ==
    /\ InitEngine(rates)
    /\ probe = ProbeInit
    /\ gui = ParameterControlBase

Init == InitWith(Rates)

\* ------------------------------------------------------- start of main()
\* The declarations each main() runs before its loop: the pattern tables and
\* the values derived from processor.frequency and processor.period.
DelayStart(d, r) == [d EXCEPT !.delayTime = delayTimeOf(r)]

LeadStart(l, r) ==
    [l EXCEPT !.triggerArray = triggerArray,
              !.pitchArray = pitchArray,
              !.samplesPerQuarterNote = samplesPerQuarterNoteOf(r),
              !.trig = TRUE,
              !.envPhaseIncr = 4,
              !.lfoPhaseIncr = 80]

BassStart(b, r) ==
    [b EXCEPT !.arp = arp,
              !.rootNotes = rootNotes,
              !.samplesPerQuarterNote = samplesPerQuarterNoteOf(r)]

Initialise ==
    /\ pc = "load"
    /\ pc' = "run"
    /\ delay' = DelayStart(delay, rate)
    /\ lead' = LeadStart(lead, rate)
    /\ bass' = BassStart(bass, rate)
    /\ UNCHANGED <<rate, tick, bassOut, leadOut, audioOut, out, hist, phasor,
                   probe, gui>>

\* ------------------------------------------------------------------- Lead
\* LeadStepEnd opening the gate at the end of every step.
LeadStepEndGateEveryStep(l) ==
    [l EXCEPT !.playHead = wrap(l.playHead + 1, LeadSteps),
              !.gate = 1,
              !.trig = TRUE]

\* LeadStepEnd without trig = true.
LeadStepEndKeepTrig(l) ==
    LET ph == wrap(l.playHead + 1, LeadSteps)
    IN  [l EXCEPT !.playHead = ph,
                  !.gate = IF ph = 0 THEN 1 ELSE l.gate]

\* After the loop (noteLength) has run out: playHead++, the gate, trig.
LeadStepEnd(l) ==
    LET ph == wrap(l.playHead + 1, LeadSteps)
    IN  [l EXCEPT !.playHead = ph,
                  !.gate = IF ph = 0 THEN 1 ELSE l.gate,
                  !.trig = TRUE]

\* LeadLoopHead with a step of two quarter notes.
LeadLoopHeadTwoQuarters(l) ==
    [l EXCEPT !.noteLength = l.samplesPerQuarterNote * 2, !.count = 0]

\* let noteLength = samplesPerQuarterNote * 1; loop (noteLength)
LeadLoopHead(l) ==
    [l EXCEPT !.noteLength = l.samplesPerQuarterNote * 1, !.count = 0]

\* LeadRestrike with pitchIdx a plain int.
LeadRestrikeNoWrap(l) ==
    IF l.triggerArray[l.playHead + 1] > 0 /\ l.trig
    THEN [l EXCEPT !.basePitch = l.pitchArray[l.pitchIdx + 1],
                   !.pitchIdx = l.pitchIdx + 1,
                   !.envPhasor = 0,
                   !.trig = FALSE]
    ELSE l

\* LeadRestrike leaving trig set.
LeadRestrikeKeepTrig(l) ==
    IF l.triggerArray[l.playHead + 1] > 0 /\ l.trig
    THEN [l EXCEPT !.basePitch = l.pitchArray[l.pitchIdx + 1],
                   !.pitchIdx = wrap(l.pitchIdx + 1, PitchSteps),
                   !.envPhasor = 0]
    ELSE l

\* The restrike: taken when the trigger cell is set and trig is true.
LeadRestrike(l) ==
    IF l.triggerArray[l.playHead + 1] > 0 /\ l.trig
    THEN [l EXCEPT !.basePitch = l.pitchArray[l.pitchIdx + 1],
                   !.pitchIdx = wrap(l.pitchIdx + 1, PitchSteps),
                   !.envPhasor = 0,
                   !.trig = FALSE]
    ELSE l

\* envPhasor passed to the smoother as it is.
LeadEnvUnclamped(l, r) == l.envPhasor

\* clamp (envPhasor, 0.f, 1.f): 1.0 is r units of 1/r.
LeadEnvClamped(l, r) == clamp(l.envPhasor, 0, r)

\* LeadSample without the factor gate.
LeadSampleUngated(l) == Sample(l.frame)

\* The sample written to out: 0.15 * (the two sawtooths) * env, where
\* env = (smoother output) * gate.
LeadSample(l) == Sample(l.frame) * l.gate

\* One iteration of the inner loop, up to and including advance().  lfoMod
\* (at most 0.1 semitone, times env) is taken as 0 in the note number.
LeadBody(l, r) ==
    LET s   == LeadRestrike(l)
        e   == [s EXCEPT !.envPhasor = s.envPhasor + s.envPhaseIncr]
        sm  == [e EXCEPT !.smootherOutm1 =
                            processSmoother(e.smootherOutm1, LeadEnvClamped(e, r))]
        lfo == [sm EXCEPT !.lfoPhasor =
                            processPhasor(sm.lfoPhasor, sm.lfoPhaseIncr,
                                          PhaseOne(r)).phase]
        inc == [lfo EXCEPT !.osc1PhaseIncr = noteToFrequency(lfo.basePitch),
                           !.osc2PhaseIncr = noteToFrequencyDetuned(lfo.basePitch)]
    IN  [inc EXCEPT !.osc1Phasor =
                        processPhasor(inc.osc1Phasor, inc.osc1PhaseIncr,
                                      PhaseOne(r)).phase,
                    !.osc2Phasor =
                        processPhasor(inc.osc2Phasor, inc.osc2PhaseIncr,
                                      PhaseOne(r)).phase,
                    !.count = inc.count + 1,
                    !.pos = "loop",
                    !.frame = inc.frame + 1]

\* Where Lead.main continues from: the top of main, or the advance() it is
\* suspended in.
LeadAtBody(l) ==
    IF l.pos = "top" THEN LeadLoopHead(l)
    ELSE IF l.count < l.noteLength THEN l
    ELSE LeadLoopHead(LeadStepEnd(l))

\* Lead.main from one advance() to the next.  With samplesPerQuarterNote = 0
\* the inner loop is empty and main never reaches advance().
LeadStep ==
    /\ pc = "run"
    /\ tick < MaxTicks
    /\ lead.frame = tick
    /\ lead.samplesPerQuarterNote >= 1
    /\ lead' = LeadBody(LeadAtBody(lead), rate)
    /\ leadOut' = [value |-> LeadSample(LeadAtBody(lead)), frame |-> lead.frame]
    /\ UNCHANGED <<rate, pc, tick, bass, delay, bassOut, audioOut, out, hist, phasor,
                   probe, gui>>

\* ------------------------------------------------------------------- Bass
\* BassStepEnd advancing rootIdx at the end of every step.
BassStepEndRootEveryStep(b) ==
    [b EXCEPT !.playHead = wrap(b.playHead + 1, BassSteps),
              !.rootIdx = wrap(b.rootIdx + 1, RootSteps)]

\* BassStepEnd advancing rootIdx on entering the last step of the bar.
BassStepEndRootOnLastStep(b) ==
    LET ph == wrap(b.playHead + 1, BassSteps)
    IN  [b EXCEPT !.playHead = ph,
                  !.rootIdx = IF ph = BassSteps - 1
                              THEN wrap(b.rootIdx + 1, RootSteps)
                              ELSE b.rootIdx]

\* After the loop (noteLength) has run out: playHead++, rootIdx++ on a wrap.
BassStepEnd(b) ==
    LET ph == wrap(b.playHead + 1, BassSteps)
    IN  [b EXCEPT !.playHead = ph,
                  !.rootIdx = IF ph = 0 THEN wrap(b.rootIdx + 1, RootSteps)
                              ELSE b.rootIdx]

\* The note number passed to noteToFrequency.
BassNote(b) == b.arp[(b.playHead % 4) + 1] + b.rootNotes[b.rootIdx + 1] - 12

\* BassLoopHead with env declared once, above the outer loop.
BassLoopHeadNoRearm(b) ==
    [b EXCEPT !.note = arp[(b.playHead % 4) + 1] + rootNotes[b.rootIdx + 1] - 12,
              !.noteLength = b.samplesPerQuarterNote,
              !.osc1PhaseIncr =
                  noteToFrequency(arp[(b.playHead % 4) + 1]
                                  + rootNotes[b.rootIdx + 1] - 12),
              !.osc2PhaseIncr =
                  noteToFrequency(arp[(b.playHead % 4) + 1]
                                  + rootNotes[b.rootIdx + 1] - 12) \div 2,
              !.lfoPhaseIncr = 30,
              !.env = IF b.pos = "top" THEN b.samplesPerQuarterNote ELSE b.env,
              !.count = 0]

\* The declarations at the top of the outer loop; env = 1 is
\* samplesPerQuarterNote units of 1/samplesPerQuarterNote.
BassLoopHead(b) ==
    [b EXCEPT !.note = BassNote(b),
              !.noteLength = b.samplesPerQuarterNote,
              !.osc1PhaseIncr = noteToFrequency(BassNote(b)),
              !.osc2PhaseIncr = noteToFrequency(BassNote(b)) \div 2,
              !.lfoPhaseIncr = 30,
              !.env = b.samplesPerQuarterNote,
              !.count = 0]

\* The sample written to out; the second oscillator is not enveloped.
BassSample(b) == Sample(b.frame)

\* One iteration of the inner loop, up to and including advance().
BassBody(b, r) ==
    LET p1  == processPhasor(b.osc1Phasor, b.osc1PhaseIncr, PhaseOne(r))
        pl  == processPhasor(b.lfoPhasor, b.lfoPhaseIncr, PhaseOne(r))
        pw  == [b EXCEPT !.osc1Phasor = p1.phase,
                         !.lfoPhasor = pl.phase,
                         !.pulse = pwm(p1.value, triangle(pl.value, PhaseOne(r)),
                                       PhaseOne(r)),
                         !.envApplied = b.env]
        o2  == [pw EXCEPT !.osc2Phasor =
                          processPhasor(pw.osc2Phasor, pw.osc2PhaseIncr,
                                        PhaseOne(r)).phase]
    IN  [o2 EXCEPT !.env = o2.env - 1,
                   !.count = o2.count + 1,
                   !.pos = "loop",
                   !.frame = o2.frame + 1]

BassAtBody(b) ==
    IF b.pos = "top" THEN BassLoopHead(b)
    ELSE IF b.count < b.noteLength THEN b
    ELSE BassLoopHead(BassStepEnd(b))

\* Bass.main from one advance() to the next.
BassStep ==
    /\ pc = "run"
    /\ tick < MaxTicks
    /\ bass.frame = tick
    /\ bass.samplesPerQuarterNote >= 1
    /\ bass' = BassBody(BassAtBody(bass), rate)
    /\ bassOut' = [value |-> BassSample(BassAtBody(bass)), frame |-> bass.frame]
    /\ UNCHANGED <<rate, pc, tick, lead, delay, leadOut, audioOut, out, hist, phasor,
                   probe, gui>>

\* ------------------------------------------------------------------ Delay
\* buffer[i]
BufferAt(d, i) == IF i \in DOMAIN d.buffer THEN d.buffer[i] ELSE Zero

\* DelayReadIdx reading one cell too far back.
DelayReadIdxOffByOne(d) == wrap(d.bufferIdx - d.delayTime - 1, BufferSize)

\* wrap<44100> (bufferIdx - delayTime)
DelayReadIdx(d) == wrap(d.bufferIdx - d.delayTime, BufferSize)

\* DelayStored without the feedback term.
DelayStoredNoFeedback(audioIn, last) == Const(audioIn)

\* DelayStored taking the input twice.
DelayStoredInputDoubled(audioIn, last) ==
    PlusIn(2 * audioIn, TimesFeedback(last))

\* audioIn + (last * feedbackLevel)
DelayStored(audioIn, last) == PlusIn(audioIn, TimesFeedback(last))

\* DelayBody storing at the cell it has just read.
DelayBodyWriteAtRead(d, in) ==
    LET o == BufferAt(d, DelayReadIdx(d))
    IN  [d EXCEPT !.last = o,
                  !.buffer = [i \in DOMAIN d.buffer \cup {DelayReadIdx(d)} |->
                                 IF i = DelayReadIdx(d) THEN DelayStored(in.value, o)
                                 ELSE d.buffer[i]],
                  !.bufferIdx = wrap(d.bufferIdx + 1, BufferSize),
                  !.inFrame = in.frame,
                  !.frame = d.frame + 1]

\* One iteration of the loop, up to and including advance(); in is the frame
\* of audioIn: its sample and the frame it was written in.
DelayBody(d, in) ==
    LET o == BufferAt(d, DelayReadIdx(d))
    IN  [d EXCEPT !.last = o,
                  !.buffer = [i \in DOMAIN d.buffer \cup {d.bufferIdx} |->
                                 IF i = d.bufferIdx THEN DelayStored(in.value, o)
                                 ELSE d.buffer[i]],
                  !.bufferIdx = wrap(d.bufferIdx + 1, BufferSize),
                  !.inFrame = in.frame,
                  !.frame = d.frame + 1]

\* The Delay free to run a frame before the Lead has written it.
DelayInputReadyAlways == TRUE

\* The Delay waiting for the frame after the one it is to read.
DelayInputReadyNextFrame == lead.frame = tick + 2

\* connection lead.out -> delay.audioIn: the Delay runs a frame once the Lead
\* has written that frame.
DelayInputReady == lead.frame = tick + 1

\* Delay.main from one advance() to the next.
DelayStep ==
    /\ pc = "run"
    /\ tick < MaxTicks
    /\ delay.frame = tick
    /\ DelayInputReady
    /\ delay' = DelayBody(delay, leadOut)
    /\ audioOut' = [value |-> BufferAt(delay, DelayReadIdx(delay)),
                    frame |-> delay.frame]
    /\ hist' = [in  |-> Append(hist.in, leadOut.value),
                out |-> Append(hist.out, BufferAt(delay, DelayReadIdx(delay)))]
    /\ UNCHANGED <<rate, pc, tick, bass, lead, bassOut, leadOut, out, phasor,
                   probe, gui>>

\* ------------------------------------------------------------------ graph
\* bass.out -> out; lead.out -> out; delay.audioOut -> out: the three streams
\* are summed into out; the sum is kept as its three terms.
Mix(b, l, d) == [bass |-> b, lead |-> l, delay |-> d]

\* The end of a frame: every node has advanced, the graph emits the frame.
Emit ==
    /\ pc = "run"
    /\ bass.frame = tick + 1
    /\ lead.frame = tick + 1
    /\ delay.frame = tick + 1
    /\ out' = Mix(bassOut, leadOut, audioOut)
    /\ tick' = tick + 1
    /\ UNCHANGED <<rate, pc, bass, lead, delay, bassOut, leadOut, audioOut, hist,
                   phasor, probe, gui>>

\* ------------------------------------------------------------ specifications
Next == Initialise \/ BassStep \/ LeadStep \/ DelayStep \/ Emit

Spec == Init /\ [][Next]_vars

\* The host keeps rendering, for MaxLiveTicks frames: whichever processor can
\* run its frame runs it, and a frame every node has written is emitted.
MaxLiveTicks == 40

Rendering == tick < MaxLiveTicks

NextLive ==
    \/ Initialise
    \/ (Rendering /\ BassStep)
    \/ (Rendering /\ LeadStep)
    \/ (Rendering /\ DelayStep)
    \/ (Rendering /\ Emit)

SpecLive ==
    /\ Init
    /\ [][NextLive]_vars
    /\ WF_vars(Initialise)
    /\ WF_vars(Rendering /\ BassStep)
    /\ WF_vars(Rendering /\ LeadStep)
    /\ WF_vars(Rendering /\ DelayStep)
    /\ WF_vars(Rendering /\ Emit)

\* The derived constants over the whole supported range of sample rates.
InitRates == InitWith(SupportedRates)

NextRates == Initialise

SpecRates == InitRates /\ [][NextRates]_vars

\* One phase accumulator driven by any sequence of increments: negative, zero,
\* the increments of the two LFOs, just under, exactly and just over a cycle,
\* and the oscillator increments of many cycles.
PhasorRate == 9

PhasorIncrements ==
    {-901, -900, -1, 0, 1, 30, 80, 449, 899, 900, 901, 11000, 44000, 44254}

PhasorCall(incr) ==
    LET r == processPhasor(phasor.phase, incr, PhaseOne(rate))
    IN  /\ phasor' = [phase |-> r.phase, value |-> r.value,
                      before |-> phasor.phase, incr |-> incr, called |-> TRUE]
        /\ UNCHANGED <<rate, pc, tick, bass, lead, delay, bassOut, leadOut,
                       audioOut, out, hist, probe, gui>>

InitPhasor == InitWith({PhasorRate})

NextPhasor == \E incr \in PhasorIncrements : PhasorCall(incr)

SpecPhasor == InitPhasor /\ [][NextPhasor]_vars

\* The Delay on its own, fed one impulse in frame 0 and silence after it, at
\* sample rates whose delayTime is a few frames, for more than ten delay
\* lengths.
MaxImpulseTicks == 80

ImpulseRates == {9, 18}

ImpulseAmplitudes == {-3, 1, 2}

\* One frame of the Delay with the sample x on audioIn.
DelayFeed(x) ==
    LET in == [value |-> x, frame |-> delay.frame]
    IN  /\ pc = "run"
        /\ delay.frame < MaxImpulseTicks
        /\ leadOut' = in
        /\ delay' = DelayBody(delay, in)
        /\ audioOut' = [value |-> BufferAt(delay, DelayReadIdx(delay)),
                        frame |-> delay.frame]
        /\ hist' = [in  |-> Append(hist.in, x),
                    out |-> Append(hist.out, BufferAt(delay, DelayReadIdx(delay)))]
        /\ tick' = tick + 1
        /\ UNCHANGED <<rate, pc, bass, lead, bassOut, out, phasor, probe, gui>>

ImpulseStep ==
    \E x \in (IF delay.frame = 0 THEN ImpulseAmplitudes ELSE {0}) : DelayFeed(x)

InitImpulse == InitWith(ImpulseRates)

NextImpulse == Initialise \/ ImpulseStep

SpecImpulse == InitImpulse /\ [][NextImpulse]_vars

\* a * feedbackLevel^k
Monomial(a, k) ==
    IF a = 0 THEN Zero ELSE [i \in 1..(k + 1) |-> IF i = k + 1 THEN a ELSE 0]

RECURSIVE Power(_, _)
Power(b, e) == IF e = 0 THEN 1 ELSE b * Power(b, e - 1)

\* |v| <= |w| at feedbackLevel = FeedbackNum / FeedbackDen, for v and w each
\* zero or one term c * feedbackLevel^k.
MagnitudeLeq(v, w) ==
    IF v = Zero THEN TRUE
    ELSE IF w = Zero THEN FALSE
    ELSE LET i == Len(v) - 1
             j == Len(w) - 1
             a == abs(v[Len(v)])
             b == abs(w[Len(w)])
         IN  IF i >= j
             THEN a * Power(FeedbackNum, i - j) <= b * Power(FeedbackDen, i - j)
             ELSE a * Power(FeedbackDen, j - i) <= b * Power(FeedbackNum, j - i)

\* ------------------------------------------------- ParameterControlBase
\* The PatchConnections a control may be given, and the endpoints.
Connections == {"c1", "c2"}

EndpointIDs == {"e1", "e2"}

\* endpointInfo objects: annotation.init and defaultValue each absent, 0 or a
\* non-zero number.
EndpointInfos ==
    {[defined |-> TRUE, endpointID |-> e, init |-> i, defaultValue |-> d] :
        e \in EndpointIDs, i \in {Undefined, Num(0), Num(2)},
        d \in {Undefined, Num(0), Num(5)}}

ControlValues == {Num(0), Num(3)}

\* JavaScript truthiness of undefined and of a number.
Truthy(x) == x.kind = "number" /\ x.v # 0

\* endpointInfo.annotation?.init || endpointInfo.defaultValue || 0
DefaultOf(info) ==
    IF Truthy(info.init) THEN info.init
    ELSE IF Truthy(info.defaultValue) THEN info.defaultValue
    ELSE Num(0)

\* A TypeError leaves the call: nothing after it in the call runs.
Throw(g) == [g EXCEPT !.last.threw = TRUE]

\* this.patchConnection?.method (this.endpointInfo.endpointID, value): nothing
\* without a connection, a TypeError without endpointInfo, else one call on the
\* connection, kept in sent.
Send(g, method, value) ==
    IF g.last.threw \/ g.patchConnection = NoConnection THEN g
    ELSE IF ~g.endpointInfo.defined THEN Throw(g)
    ELSE [g EXCEPT !.sent = Append(@, [conn |-> g.patchConnection,
                                       method |-> method,
                                       endpointID |-> g.endpointInfo.endpointID,
                                       value |-> value])]

setValue(g, value) == Send(g, "sendEventOrValue", value)

beginGesture(g) == Send(g, "sendParameterGestureStart", Undefined)

endGesture(g) == Send(g, "sendParameterGestureEnd", Undefined)

\* setValueAsGesture without the call of endGesture.
setValueAsGestureNoEnd(g, value) == setValue(beginGesture(g), value)

setValueAsGesture(g, value) == endGesture(setValue(beginGesture(g), value))

\* defaultValue !== null holds of undefined and of every number.
resetToDefault(g) == setValueAsGesture(g, g.defaultValue)

\* PatchConnection.addParameterListener and removeParameterListener: the
\* connection keeps the listeners registered under each endpointID.
addParameterListener(g, conn, endpointID, listener) ==
    [g EXCEPT !.listeners = @ \cup {[conn |-> conn, endpointID |-> endpointID,
                                     id |-> listener.id]}]

removeParameterListener(g, conn, endpointID, listener) ==
    [g EXCEPT !.listeners = @ \ {[conn |-> conn, endpointID |-> endpointID,
                                  id |-> listener.id]}]

\* detachListener forgetting the listener without removing it.
detachListenerKeepRegistered(g) == [g EXCEPT !.listener = NoListener]

detachListener(g) ==
    IF g.listener.defined
    THEN [(IF g.patchConnection # NoConnection
           THEN removeParameterListener(g, g.patchConnection,
                                        g.listener.endpointID, g.listener)
           ELSE g) EXCEPT !.listener = NoListener]
    ELSE g

\* newValue => this.valueChanged (newValue): a function object distinct from
\* every listener still registered.
NewListener(g) ==
    CHOOSE n \in 0..Cardinality(g.listeners) :
        /\ \A l \in g.listeners : l.id # n
        /\ \A m \in 0..(n - 1) : \E l \in g.listeners : l.id = m

attachListener(g) ==
    IF g.patchConnection # NoConnection /\ g.endpointInfo.defined
    THEN LET g1 == detachListener(g)
             l  == [defined |-> TRUE, id |-> NewListener(g1),
                    endpointID |-> g1.endpointInfo.endpointID]
             g2 == [g1 EXCEPT !.listener = l]
             g3 == addParameterListener(g2, g2.patchConnection,
                                        g2.endpointInfo.endpointID, l)
         IN  Send(g3, "requestParameterValue", Undefined)
    ELSE g

\* setEndpoint; endpointInfo.annotation of an undefined endpointInfo is a
\* TypeError, after the two fields have been assigned.
setEndpoint(g, patchConnection, endpointInfo) ==
    LET g1 == detachListener(g)
        g2 == [g1 EXCEPT !.patchConnection = patchConnection,
                         !.endpointInfo = endpointInfo]
        g3 == [g2 EXCEPT !.defaultValue = DefaultOf(endpointInfo)]
    IN  IF ~endpointInfo.defined THEN Throw(g2)
        ELSE IF g3.isConnected THEN attachListener(g3)
        ELSE g3

connectedCallback(g) == attachListener(g)

disconnectedCallback(g) == detachListener(g)

\* The control at the start of the call op (value): sent holds the calls this
\* call makes on a PatchConnection.
Calling(g, op, value) ==
    [g EXCEPT !.sent = << >>,
              !.last = [op |-> op, value |-> value, threw |-> FALSE]]

Engine == <<rate, pc, tick, bass, lead, delay, bassOut, leadOut, audioOut, out,
            hist, phasor, probe>>

SetEndpoint(patchConnection, endpointInfo) ==
    /\ gui' = setEndpoint(Calling(gui, "setEndpoint", Undefined),
                          patchConnection, endpointInfo)
    /\ UNCHANGED Engine

\* The element is put into a document: isConnected, then connectedCallback().
ConnectedCallback ==
    /\ gui' = connectedCallback([Calling(gui, "connectedCallback", Undefined)
                                    EXCEPT !.isConnected = TRUE])
    /\ UNCHANGED Engine

\* The element is taken out of its document.
DisconnectedCallback ==
    /\ gui' = disconnectedCallback(
                  [Calling(gui, "disconnectedCallback", Undefined)
                      EXCEPT !.isConnected = FALSE])
    /\ UNCHANGED Engine

SetValueAsGesture(value) ==
    /\ gui' = setValueAsGesture(Calling(gui, "setValueAsGesture", value), value)
    /\ UNCHANGED Engine

ResetToDefault ==
    /\ gui' = resetToDefault(Calling(gui, "resetToDefault", gui.defaultValue))
    /\ UNCHANGED Engine

InitControl == InitWith({PhasorRate})

NextControl ==
    \/ \E c \in Connections \cup {NoConnection},
          e \in EndpointInfos \cup {NoEndpoint} : SetEndpoint(c, e)
    \/ ConnectedCallback
    \/ DisconnectedCallback
    \/ \E v \in ControlValues : SetValueAsGesture(v)
    \/ ResetToDefault

SpecControl == InitControl /\ [][NextControl]_vars

\* pwm on its own, at every phase of a cycle of PhaseOne(PhasorRate) units:
\* called with widths below, inside and above [0.01, 0.99] and beyond [0, 1],
\* and called as Bass.main calls it, with the triangle of an LFO phase.
PwmWidths == {-450, -1, 0, 1, 8, 9, 10, 450, 890, 891, 892, 899, 900, 901, 1350}

PwmLfoPhases == {0, 1, 4, 5, 224, 225, 449, 450, 451, 675, 895, 896, 899}

\* pwm (phase, pw); lfo is the LFO phase the width was made from, -1 for none.
PwmCall(phase, pw, lfo) ==
    /\ probe' = [phase |-> phase, width |-> pw, lfo |-> lfo,
                 value |-> pwm(phase, pw, PhaseOne(rate)), called |-> TRUE]
    /\ UNCHANGED <<rate, pc, tick, bass, lead, delay, bassOut, leadOut,
                   audioOut, out, hist, phasor, gui>>

\* pwm (processPhasor (osc1Phasor, ...), triangle (processPhasor (lfoPhasor, ...)))
BassPulse(phase, lfo) == PwmCall(phase, triangle(lfo, PhaseOne(rate)), lfo)

InitPwm == InitWith({PhasorRate})

\* One call in each behaviour.
NextPwm ==
    \/ /\ ~probe.called
       /\ \E phase \in 0..(PhaseOne(PhasorRate) - 1), pw \in PwmWidths :
              PwmCall(phase, pw, -1)
    \/ /\ ~probe.called
       /\ \E phase \in 0..(PhaseOne(PhasorRate) - 1), lfo \in PwmLfoPhases :
              BassPulse(phase, lfo)

SpecPwm == InitPwm /\ [][NextPwm]_vars

\* ------------------------------------------------------------------ claims
\* C1: for every sample rate R in 44100..192000 the Delay's
\* delayTime = floor((R / 9) * 3.98) is strictly less than the buffer
\* capacity 44100.
C1_DelayTimeBelowCapacity ==
    (pc = "run" /\ rate \in SupportedRates) => delay.delayTime < BufferSize

\* C2: if the sample rate is <= 0 or delayTime is >= the capacity 44100,
\* initialization fails and no tick is ever executed: no processor ever runs
\* a frame.
C2_NoTickWhenMisconfigured ==
    (rate <= 0 \/ delay.delayTime >= BufferSize)
        => (tick = 0 /\ bass.frame = 0 /\ lead.frame = 0 /\ delay.frame = 0)

\* C3: the Lead gate is 0 in each of the first 256 * samplesPerQuarterNote
\* frames and 1 in every frame after them, and while the gate is 0 the sample
\* the Lead writes is exactly 0.
C3_LeadGate ==
    pc = "run" =>
        /\ lead.gate = (IF lead.frame > LeadSteps * lead.samplesPerQuarterNote
                        THEN 1 ELSE 0)
        /\ lead.gate = 0 => leadOut.value = 0

\* The gate is open, the pattern has wrapped at a step of more than one frame,
\* and the Lead has written a non-silent sample.
C3_Witness ==
    /\ lead.samplesPerQuarterNote = 2
    /\ lead.frame > LeadSteps * 2
    /\ lead.gate = 1
    /\ leadOut.value # 0

\* C4: in every frame the Delay emits buffer[(writeCursor - delayTime) mod
\* 44100], stores audioIn + feedback * (that value) at writeCursor and advances
\* writeCursor by one modulo 44100; with 1 <= delayTime < 44100,
\* out(t) = 0 for t < delayTime and
\* out(t) = in(t - delayTime) + feedback * out(t - delayTime) afterwards.
C4_DelayRecurrence ==
    LET n == delay.frame
        d == delay.delayTime
    IN  n > 0 =>
            /\ Len(hist.out) = n
            /\ audioOut.value = hist.out[n]
            /\ delay.last = hist.out[n]
            /\ delay.bufferIdx = n % BufferSize
            /\ d % BufferSize # 0 =>
                   audioOut.value = BufferAt(delay, (n - 1 - d) % BufferSize)
            /\ BufferAt(delay, (n - 1) % BufferSize)
                   = PlusIn(hist.in[n], TimesFeedback(hist.out[n]))
            /\ (1 <= d /\ d < BufferSize) =>
                   hist.out[n] = IF n - 1 < d THEN Zero
                                 ELSE PlusIn(hist.in[n - d],
                                             TimesFeedback(hist.out[n - d]))

\* The Delay emits a sample that has been round the feedback path: a Lead
\* sample plus feedback times an earlier Lead sample.
C4_Witness ==
    /\ delay.frame > 0
    /\ 1 <= delay.delayTime
    /\ delay.delayTime < BufferSize
    /\ Len(audioOut.value) >= 3
    /\ audioOut.value[1] # 0
    /\ audioOut.value[2] # 0

\* C5: the graph output of frame t is Bass.out(t) + Lead.out(t) +
\* Delay.audioOut(t), and what the Delay stores in frame t is computed from
\* the Lead's output of the same frame t.
C5_GraphSum ==
    /\ tick > 0 =>
           /\ out.bass.frame = tick - 1
           /\ out.lead.frame = tick - 1
           /\ out.delay.frame = tick - 1
           /\ out.bass.value = Sample(tick - 1)
           /\ out.lead.value = hist.in[tick]
           /\ out.delay.value = hist.out[tick]
    /\ delay.frame > 0 =>
           /\ delay.inFrame = delay.frame - 1
           /\ lead.frame = delay.frame =>
                  /\ leadOut.frame = delay.inFrame
                  /\ leadOut.value = hist.in[delay.frame]

\* A frame has been emitted in which all three terms are non-silent.
C5_Witness ==
    /\ tick > 0
    /\ out.bass.value # 0
    /\ out.lead.value # 0
    /\ out.delay.value # Zero

\* C7: every cyclic index is inside its table in every reachable state: Lead
\* playHead in [0,256) and pitchIdx in [0,15), Bass playHead in [0,32),
\* rootIdx in [0,8) and arpeggio index in [0,4), the Delay write cursor and
\* read index in [0,44100).
C7_IndicesInRange ==
    /\ lead.playHead \in 0..(LeadSteps - 1)
    /\ lead.pitchIdx \in 0..(PitchSteps - 1)
    /\ bass.playHead \in 0..(BassSteps - 1)
    /\ bass.rootIdx \in 0..(RootSteps - 1)
    /\ (bass.playHead % 4) \in 0..(Len(arp) - 1)
    /\ delay.bufferIdx \in 0..(BufferSize - 1)
    /\ DelayReadIdx(delay) \in 0..(BufferSize - 1)
    /\ Len(triggerArray) = LeadSteps
    /\ Len(pitchArray) = PitchSteps
    /\ Len(rootNotes) = RootSteps

\* Both playHeads, pitchIdx and rootIdx have wrapped to 0, and the read index
\* has wrapped below 0 in an earlier frame.
C7_Witness ==
    /\ lead.samplesPerQuarterNote = 2
    /\ lead.frame = LeadSteps * 2 + 1
    /\ lead.playHead = 0
    /\ lead.pitchIdx = 1
    /\ bass.frame = LeadSteps * 2 + 1
    /\ bass.playHead = 0
    /\ bass.rootIdx = 0
    /\ delay.frame > delay.delayTime

\* C8: in step n of the Bass the note is
\* arp[n mod 4] + rootNotes[floor(n / 32) mod 8] - 12, the same in every frame
\* of the step, and rootIdx advances exactly when playHead wraps to 0, once
\* per 32 steps.
C8_BassNote ==
    bass.frame > 0 =>
        LET n == (bass.frame - 1) \div bass.samplesPerQuarterNote
        IN  /\ bass.playHead = n % 32
            /\ bass.rootIdx = (n \div 32) % 8
            /\ bass.note = arp[(n % 4) + 1] + rootNotes[((n \div 32) % 8) + 1] - 12
            /\ bass.osc1PhaseIncr = noteToFrequency(bass.note)

\* The second frame of a step of the fourth group of 32 steps: the root note
\* is 2 and the arpeggio is at its last note.
C8_Witness ==
    /\ bass.samplesPerQuarterNote = 2
    /\ bass.count = 2
    /\ bass.rootIdx = 3
    /\ bass.playHead = 3
    /\ bass.note = 50

\* C9: the Bass envelope is 1 in the first frame of every step and falls by
\* 1 / samplesPerQuarterNote per frame: in the k-th frame of a step the value
\* applied is 1 - k/N, strictly positive, and the envelope is 0 only after the
\* last frame of the step; at 44100 Hz N is 4900.
C9_BassEnvelope ==
    /\ bass.frame > 0 =>
           LET N == bass.samplesPerQuarterNote
               k == (bass.frame - 1) % N
           IN  /\ bass.envApplied = N - k
               /\ bass.envApplied > 0
               /\ bass.env = N - k - 1
               /\ bass.env = 0 <=> k = N - 1
    /\ (pc = "run" /\ rate = 44100) => bass.samplesPerQuarterNote = 4900

\* The last frame of a later step of two frames: the envelope was re-armed at
\* the step's first frame, is applied at 1/2 and comes down to 0.
C9_Witness ==
    /\ bass.samplesPerQuarterNote = 2
    /\ bass.frame > 2
    /\ bass.count = 2
    /\ bass.envApplied = 1
    /\ bass.env = 0

\* C10: for any sequence of phase increments the phase accumulator holds a
\* value in [0,1) after every call, and processPhasor returns the value after
\* the advance, wrap (phase + increment, 1).
C10_PhasorInRange ==
    /\ phasor.phase \in 0..(PhaseOne(rate) - 1)
    /\ phasor.called =>
           /\ phasor.value = (phasor.before + phasor.incr) % PhaseOne(rate)
           /\ phasor.phase = phasor.value

\* A call that carried the phase over the end of the cycle.
C10_Witness ==
    /\ phasor.called
    /\ phasor.before > 0
    /\ phasor.incr > 0
    /\ phasor.before + phasor.incr >= PhaseOne(rate)
    /\ phasor.value < phasor.before

\* C11: with feedback 0.35 and one impulse of amplitude A fed to the Delay in
\* frame 0 (0 in every other frame), the Delay's output is A * 0.35^(k-1) in
\* frame k * delayTime for k >= 1 and 0 in every other frame, and what the
\* buffer holds never grows from one delay length to the next: each written
\* cell is no larger in magnitude than the cell one delayTime before it.
C11_ImpulseResponse ==
    (pc = "run" /\ delay.frame > 0) =>
        LET d == delay.delayTime
            A == hist.in[1]
        IN  /\ \A t \in 0..(delay.frame - 1) :
                   hist.out[t + 1] = (IF t >= d /\ t % d = 0
                                      THEN Monomial(A, (t \div d) - 1)
                                      ELSE Zero)
            /\ \A i \in d..(delay.frame - 1) :
                   MagnitudeLeq(BufferAt(delay, i), BufferAt(delay, i - d))

\* The tenth echo has been written: A * 0.35^9 in frame 10 * delayTime.
C11_Witness ==
    /\ pc = "run"
    /\ delay.frame > 10 * delay.delayTime
    /\ hist.in[1] # 0
    /\ hist.out[10 * delay.delayTime + 1] = Monomial(hist.in[1], 9)

\* C12: at every sample rate the engine is started with, samplesPerQuarterNote
\* is floor(rate / clock) and at least 1, in Lead and in Bass.
C12_QuarterNoteAtLeastOne ==
    pc = "run" =>
        /\ lead.samplesPerQuarterNote = rate \div clock
        /\ bass.samplesPerQuarterNote = rate \div clock
        /\ lead.samplesPerQuarterNote >= 1
        /\ bass.samplesPerQuarterNote >= 1

Attached == gui.patchConnection # NoConnection /\ gui.endpointInfo.defined

\* The three calls of a gesture that sets value, on the control's connection
\* and endpoint.
GestureOf(value) ==
    LET call(method, v) == [conn |-> gui.patchConnection, method |-> method,
                            endpointID |-> gui.endpointInfo.endpointID,
                            value |-> v]
    IN  <<call("sendParameterGestureStart", Undefined),
          call("sendEventOrValue", value),
          call("sendParameterGestureEnd", Undefined)>>

\* C14: setValueAsGesture(value) on a control attached to a PatchConnection
\* sends exactly three messages for the control's endpoint, in the order
\* gesture start, the value, gesture end; resetToDefault() sends the same three
\* with the control's default value.
C14_GestureMessages ==
    Attached =>
        /\ gui.last.op = "setValueAsGesture" => gui.sent = GestureOf(gui.last.value)
        /\ gui.last.op = "resetToDefault" => gui.sent = GestureOf(gui.defaultValue)

\* resetToDefault() has sent the gesture of a default taken from
\* endpointInfo.defaultValue, annotation.init being 0.
C14_Witness ==
    /\ Attached
    /\ gui.last.op = "resetToDefault"
    /\ gui.endpointInfo.init = Num(0)
    /\ gui.defaultValue = Num(5)
    /\ Len(gui.sent) = 3
    /\ gui.sent[2].value = Num(5)

\* C15: after any sequence of setEndpoint, connectedCallback and
\* disconnectedCallback at most one listener of the control is registered with
\* any PatchConnection, and a registered listener is the control's listener,
\* on its current patchConnection under its current endpointID; after
\* disconnectedCallback, and after setEndpoint with an undefined
\* patchConnection, no listener of the control is registered.
C15_OneListener ==
    /\ Cardinality(gui.listeners) <= 1
    /\ \A l \in gui.listeners :
           /\ l.conn = gui.patchConnection
           /\ gui.endpointInfo.defined
           /\ l.endpointID = gui.endpointInfo.endpointID
           /\ gui.listener.defined
           /\ l.id = gui.listener.id
           /\ l.endpointID = gui.listener.endpointID
    /\ (\/ gui.last.op = "disconnectedCallback"
        \/ gui.last.op = "setEndpoint" /\ gui.patchConnection = NoConnection)
           => gui.listeners = {}

\* A connected control moved by setEndpoint to the endpoint e2 of connection
\* c2 has its one listener there.
C15_Witness ==
    /\ gui.last.op = "setEndpoint"
    /\ gui.isConnected
    /\ gui.listeners = {[conn |-> "c2", endpointID |-> "e2", id |-> 0]}
    /\ gui.sent = <<[conn |-> "c2", method |-> "requestParameterValue",
                     endpointID |-> "e2", value |-> Undefined]>>

C17_RestrikeOncePerStep ==
    [][(lead'.frame = lead.frame + 1) =>
          LET N    == lead.samplesPerQuarterNote
              step == lead.frame \div N
              cell == triggerArray[wrap(step, LeadSteps) + 1]
          IN  IF lead.frame % N = 0 /\ cell = 1
              THEN /\ lead'.basePitch = pitchArray[lead.pitchIdx + 1]
                   /\ lead'.pitchIdx = wrap(lead.pitchIdx + 1, PitchSteps)
                   /\ lead'.envPhasor = lead.envPhaseIncr
              ELSE /\ lead'.basePitch = lead.basePitch
                   /\ lead'.pitchIdx = lead.pitchIdx
                   /\ lead'.envPhasor = lead.envPhasor + lead.envPhaseIncr]_vars

\* The second frame of the step of the fifteenth 1 cell: the restrike of its
\* first frame took the last pitch and wrapped pitchIdx, and the second frame
\* has left both alone.
C17_Witness ==
    /\ lead.samplesPerQuarterNote = 2
    /\ triggerArray[lead.playHead + 1] = 1
    /\ lead.count = 2
    /\ lead.pitchIdx = 0
    /\ lead.basePitch = pitchArray[PitchSteps]
    /\ lead.envPhasor = 2 * lead.envPhaseIncr

\* C18: in tick t (the frame of index t, counted from 0) the Lead playHead is
\* floor(t / samplesPerQuarterNote) mod 256 and the Bass playHead is
\* floor(t / samplesPerQuarterNote) mod 32, and neither playHead changes on a
\* tick that is not a multiple of samplesPerQuarterNote.
C18_PlayHeads ==
    /\ [](pc = "run" =>
            /\ lead.frame > 0 =>
                   lead.playHead = wrap((lead.frame - 1) \div lead.samplesPerQuarterNote,
                                        LeadSteps)
            /\ bass.frame > 0 =>
                   bass.playHead = wrap((bass.frame - 1) \div bass.samplesPerQuarterNote,
                                        BassSteps))
    /\ [][(lead'.playHead # lead.playHead) =>
              (lead'.frame = lead.frame + 1
                  /\ lead.frame % lead.samplesPerQuarterNote = 0)]_vars
    /\ [][(bass'.playHead # bass.playHead) =>
              (bass'.frame = bass.frame + 1
                  /\ bass.frame % bass.samplesPerQuarterNote = 0)]_vars

\* Tick 514 at two frames a step: step 257, the Lead playHead has wrapped to
\* 1 and the Bass playHead, eight times round, is at 1 too.
C18_Witness ==
    /\ lead.samplesPerQuarterNote = 2
    /\ lead.frame = 515
    /\ bass.frame = 515
    /\ lead.playHead = 1
    /\ bass.playHead = 1

\* The last step up to step n whose trigger cell is 1 (step 0 is one).
RECURSIVE LastTriggerStep(_)
LastTriggerStep(n) ==
    IF triggerArray[wrap(n, LeadSteps) + 1] = 1 THEN n ELSE LastTriggerStep(n - 1)

\* C19 as stated: the stored value of the Lead envelope accumulator stays
\* within [0,1] in every reachable state (it saturates at 1), and the value
\* fed to the smoother is within [0,1].
C19_AccumulatorSaturates ==
    pc = "run" =>
        /\ lead.envPhasor \in 0..rate
        /\ LeadEnvClamped(lead, rate) \in 0..rate

\* C19 amended: the stored accumulator is never negative and is not clamped:
\* after each frame it is 4 * samplePeriod times the number of frames since
\* the last restrike (its frame included), so it is reset on a restrike and
\* grows past 1 until the next one; the value fed to the smoother is the
\* accumulator clamped to [0,1], and the smoother output stays within [0,1].
C19_AccumulatorClampedOnUse ==
    (pc = "run" /\ lead.frame > 0) =>
        LET N == lead.samplesPerQuarterNote
            t == lead.frame - 1
            j == LastTriggerStep(t \div N)
        IN  /\ lead.envPhasor = lead.envPhaseIncr * (t - j * N + 1)
            /\ lead.envPhasor >= 0
            /\ LeadEnvClamped(lead, rate) \in 0..rate
            /\ LeadEnvClamped(lead, rate) =
                   (IF lead.envPhasor > rate THEN rate ELSE lead.envPhasor)
            /\ lead.smootherOutm1 \in 0..(100 * rate)

\* Long after a restrike the stored accumulator is ten times 1.0 and the
\* smoother is fed 1.0.
C19_Witness ==
    /\ rate = 18
    /\ lead.frame > 0
    /\ lead.envPhasor > 10 * rate
    /\ LeadEnvClamped(lead, rate) = rate
    /\ lead.smootherOutm1 > 0

C21_FrameEffects ==
    /\ [](pc = "run" =>
            /\ lead.triggerArray = triggerArray
            /\ lead.pitchArray = pitchArray
            /\ bass.arp = arp
            /\ bass.rootNotes = rootNotes)
    /\ [][(pc = "run" /\ bass' # bass) =>
              (lead' = lead /\ delay' = delay /\ leadOut' = leadOut
                  /\ audioOut' = audioOut)]_vars
    /\ [][(pc = "run" /\ lead' # lead) =>
              (bass' = bass /\ delay' = delay /\ bassOut' = bassOut
                  /\ audioOut' = audioOut)]_vars
    /\ [][(pc = "run" /\ delay' # delay) =>
              (/\ bass' = bass /\ lead' = lead
               /\ bassOut' = bassOut /\ leadOut' = leadOut
               /\ DOMAIN delay'.buffer = DOMAIN delay.buffer \cup {delay.bufferIdx}
               /\ \A i \in DOMAIN delay.buffer \ {delay.bufferIdx} :
                      delay'.buffer[i] = delay.buffer[i]
               /\ delay'.bufferIdx = wrap(delay.bufferIdx + 1, BufferSize)
               /\ delay'.delayTime = delay.delayTime
               /\ delay'.last = audioOut'.value)]_vars

\* The Lead and the Delay have run a frame of the audible loop and Bass has
\* not yet: the Delay has written a cell that is not 0 next to cells it wrote
\* before.
C21_Witness ==
    /\ pc = "run"
    /\ lead.gate = 1
    /\ lead.frame = tick + 1
    /\ delay.frame = tick + 1
    /\ bass.frame = tick
    /\ BufferAt(delay, delay.frame - 1) # Zero
    /\ Cardinality(DOMAIN delay.buffer) = delay.frame

\* ---------------------------------------------------------------- Options
\* The number 1.0 in the units the values of an Options control are counted
\* in: every value below is a whole number of these.
OptionOne == 60

\* What a member lookup on an instance of Options finds: the methods of the
\* class body and of ParameterControlBase.  The methods declared static are
\* members of the class, not of its instances.
OptionsInstanceMethods ==
    {"setEndpoint", "valueChanged", "getDisplayValue", "setValue",
     "beginGesture", "endGesture", "setValueAsGesture", "resetToDefault",
     "connectedCallback", "disconnectedCallback", "detachListener",
     "attachListener"}

OptionsStaticMethods ==
    {"canBeUsedFor", "hasTextOptions", "isExplicitlyDiscrete", "getCSS"}

\* annotation.text names TextCounts options; annotation.min and max are both
\* absent or both given; annotation.step of a discrete parameter.
TextCounts == {2, 3, 4}

OptionRanges ==
    {<<Undefined, Undefined>>, <<Num(0), Num(2 * OptionOne)>>,
     <<Num(OptionOne), Num(3 * OptionOne)>>, <<Num(OptionOne), Num(OptionOne)>>}

OptionSteps == {20, 25, 30, 60}

OptionDefaults == {Undefined, Num(OptionOne), Num(2 * OptionOne)}

\* endpointInfo objects of parameters Options.canBeUsedFor accepts: text is
\* annotation.text.split ("|").length (0 without annotation.text), step is 0
\* without annotation.step.
OptionsInfos ==
    {[defined |-> TRUE, endpointID |-> "e1", init |-> Undefined,
      defaultValue |-> d, text |-> n, min |-> r[1], max |-> r[2],
      step |-> 0, discrete |-> FALSE] :
        n \in TextCounts, r \in OptionRanges, d \in OptionDefaults}
    \cup
    {[defined |-> TRUE, endpointID |-> "e1", init |-> Undefined,
      defaultValue |-> d, text |-> 0, min |-> r[1], max |-> r[2],
      step |-> s, discrete |-> TRUE] :
        s \in OptionSteps, r \in OptionRanges, d \in OptionDefaults}

toValue(min, step, index) == min + (step * index)

toStepCount(count) == IF count > 0 THEN count - 1 ELSE 1

\* (n / d) | 0: the quotient with its fraction dropped.
Trunc(n, d) ==
    LET a == IF d < 0 THEN -n ELSE n
        b == abs(d)
    IN  IF a >= 0 THEN a \div b ELSE -((-a) \div b)

hasTextOptions(endpointInfo) == endpointInfo.text > 1

isExplicitlyDiscrete(endpointInfo) ==
    endpointInfo.discrete /\ endpointInfo.step > 0

Options_canBeUsedFor(endpointInfo) ==
    hasTextOptions(endpointInfo) \/ isExplicitlyDiscrete(endpointInfo)

\* x || d of a number or undefined x.
OrElse(x, d) == IF Truthy(x) THEN x.v ELSE d

\* { min, max, options } of setEndpoint: options holds the option values,
\* options[i + 1] that of index i.
OptionsRange(endpointInfo) ==
    IF hasTextOptions(endpointInfo)
    THEN LET stepCount == toStepCount(endpointInfo.text)
             given == /\ endpointInfo.min.kind = "number"
                      /\ endpointInfo.max.kind = "number"
             min  == IF given THEN endpointInfo.min.v ELSE 0
             max  == IF given THEN endpointInfo.max.v
                     ELSE stepCount * OptionOne
             step == IF given THEN (max - min) \div stepCount ELSE OptionOne
         IN  [min |-> min, max |-> max,
              options |-> [i \in 1..endpointInfo.text |->
                              toValue(min, step, i - 1)]]
    ELSE LET step == endpointInfo.step
             min  == OrElse(endpointInfo.min, 0)
             max  == OrElse(endpointInfo.max, OptionOne)
             numDiscreteOptions == Trunc(max - min, step) + 1
         IN  [min |-> min, max |-> max,
              options |-> [i \in 1..numDiscreteOptions |->
                              toValue(min, step, i - 1)]]

\* Math.min (stepCount, normalise (value) * options.length) | 0.  With
\* max = min, normalise divides by zero: NaN | 0 is 0, Math.min of stepCount
\* and +Infinity is stepCount, -Infinity | 0 is 0.
toIndex(r, value) ==
    LET stepCount == toStepCount(Len(r.options))
        num == (value - r.min) * Len(r.options)
        den == r.max - r.min
    IN  IF den = 0
        THEN IF num > 0 THEN stepCount ELSE 0
        ELSE IF \/ (den > 0 /\ num >= stepCount * den)
                \/ (den < 0 /\ num <= stepCount * den)
             THEN stepCount
             ELSE Trunc(num, den)

NoSelect == [defined |-> FALSE, length |-> 0, selectedIndex |-> -1]

\* select.selectedIndex = index: an index outside the list selects nothing.
SelectSet(select, index) ==
    [select EXCEPT !.selectedIndex =
        IF index \in 0..(select.length - 1) THEN index ELSE -1]

\* An Options after super(): the fields setEndpoint assigns are undefined.
OptionsBlank ==
    [patchConnection |-> NoConnection, endpointInfo |-> NoEndpoint,
     defaultValue |-> Undefined, listener |-> NoListener, isConnected |-> FALSE,
     listeners |-> {}, sent |-> << >>,
     last |-> [op |-> "constructor", value |-> Undefined, threw |-> FALSE],
     built |-> FALSE, options |-> << >>, min |-> 0, max |-> 0,
     selectedIndex |-> Undefined, select |-> NoSelect]

\* valueChanged: this.toIndex is undefined until setEndpoint has assigned it.
Options_valueChanged(g, newValue) ==
    IF ~g.built THEN Throw(g)
    ELSE LET index == toIndex(g, newValue)
         IN  [g EXCEPT !.selectedIndex = Num(index),
                       !.select = SelectSet(@, index)]

\* The change listener of the select element, after the user picked newIndex.
Options_change(g, newIndex) ==
    setValueAsGesture([g EXCEPT !.select = SelectSet(@, g.selectedIndex.v)],
                      Num(g.options[newIndex + 1]))

\* setEndpoint from this.options = options on; its last call hands the index
\* selectedIndex to valueChanged as the number newValue.
Options_build(g, endpointInfo) ==
    LET r  == OptionsRange(endpointInfo)
        g1 == [g EXCEPT !.built = TRUE, !.options = r.options,
                        !.min = r.min, !.max = r.max]
        g2 == [g1 EXCEPT
                  !.select = [defined |-> TRUE, length |-> Len(r.options),
                              selectedIndex |-> 0],
                  !.selectedIndex = Num(toIndex(g1, g1.defaultValue.v))]
    IN  Options_valueChanged(g2, g2.selectedIndex.v * OptionOne)

\* Options.setEndpoint: this.hasTextOptions is looked up on the instance, and
\* calling what the lookup finds is a TypeError when it finds nothing.
Options_setEndpoint(g, patchConnection, endpointInfo) ==
    LET g1 == setEndpoint(g, patchConnection, endpointInfo)
    IN  IF g1.last.threw THEN g1
        ELSE IF "hasTextOptions" \notin OptionsInstanceMethods THEN Throw(g1)
        ELSE IF ~Options_canBeUsedFor(endpointInfo) THEN Throw(g1)
        ELSE Options_build(g1, endpointInfo)

\* new Options (patchConnection, endpointInfo)
Options(patchConnection, endpointInfo) ==
    Options_setEndpoint(Calling(OptionsBlank, "Options", Undefined),
                        patchConnection, endpointInfo)

NewOptions(patchConnection, endpointInfo) ==
    /\ gui' = Options(patchConnection, endpointInfo)
    /\ UNCHANGED Engine

InitOptions ==
    /\ InitEngine({PhasorRate})
    /\ probe = ProbeInit
    /\ gui = OptionsBlank

NextOptions ==
    \E c \in Connections \cup {NoConnection}, e \in OptionsInfos :
        NewOptions(c, e)

SpecOptions == InitOptions /\ [][NextOptions]_vars

\* The three calls of a gesture of the control g that sets value.
GestureFrom(g, value) ==
    LET call(method, v) == [conn |-> g.patchConnection, method |-> method,
                            endpointID |-> g.endpointInfo.endpointID,
                            value |-> v]
    IN  <<call("sendParameterGestureStart", Undefined),
          call("sendEventOrValue", value),
          call("sendParameterGestureEnd", Undefined)>>

\* C22: an Options control made for a parameter with options shows its
\* selectedIndex in a select element, and when the user picks index j there
\* the displayed index is put back to selectedIndex, selectedIndex is kept and
\* options[j].value is sent as a gesture.
C22_PickSendsGesture ==
    (gui.last.op = "Options" /\ Options_canBeUsedFor(gui.endpointInfo)) =>
        /\ ~gui.last.threw
        /\ gui.select.defined
        /\ gui.select.length = Len(gui.options)
        /\ gui.select.selectedIndex = gui.selectedIndex.v
        /\ \A j \in 0..(Len(gui.options) - 1) :
              LET h == Options_change(Calling(gui, "change", Num(j)), j)
              IN  /\ h.selectedIndex = gui.selectedIndex
                  /\ h.select.selectedIndex = gui.selectedIndex.v
                  /\ gui.patchConnection # NoConnection =>
                        h.sent = GestureFrom(gui, Num(gui.options[j + 1]))

\* The number of 1 cells among the cells 0..n of the trigger table t.
TriggersUpTo(t, n) == Cardinality({i \in 0..n : t[i + 1] > 0})

\* C23: the trigger table holds exactly 15 cells set to 1 in its 256 steps,
\* as many as the pitch table has entries, so pitchIdx is 0 whenever the first
\* frame of step 0 is about to be rendered: that frame restrikes with
\* pitchArray[0] = 69 in every loop, the muted first one and the audible ones
\* alike, and after any frame pitchIdx and basePitch depend on the playHead
\* alone, so every loop plays the same melody.
C23_MelodyRepeats ==
    /\ [](pc = "run" =>
            /\ TriggersUpTo(lead.triggerArray, LeadSteps - 1) = Len(lead.pitchArray)
            /\ Len(lead.pitchArray) = PitchSteps
            /\ lead.pitchArray[1] = 69
            /\ lead.frame > 0 =>
                  LET n == TriggersUpTo(lead.triggerArray, lead.playHead)
                  IN  /\ lead.pitchIdx = wrap(n, PitchSteps)
                      /\ lead.basePitch = lead.pitchArray[n])
    /\ [][(/\ lead'.frame = lead.frame + 1
           /\ lead.frame % (LeadSteps * lead.samplesPerQuarterNote) = 0) =>
              (/\ lead.pitchIdx = 0
               /\ lead'.playHead = 0
               /\ lead'.basePitch = 69
               /\ lead'.pitchIdx = 1)]_vars

\* The first frame of the second loop, the first audible one, at one frame a
\* step: the gate is open and the restrike has taken pitchArray[0].
C23_Witness ==
    /\ lead.samplesPerQuarterNote = 1
    /\ lead.frame = LeadSteps + 1
    /\ lead.playHead = 0
    /\ lead.gate = 1
    /\ lead.basePitch = 69
    /\ lead.pitchIdx = 1

\* C24: the Bass and the Lead stay in step: whenever both have rendered the
\* same frames, the Bass playHead is the Lead playHead modulo 32 and the Bass
\* rootIdx is the Lead playHead divided by 32, so the cycle of the 8 root
\* notes starts again when the Lead pattern wraps.
C24_Lockstep ==
    /\ [](pc = "run" /\ bass.frame = lead.frame =>
            /\ bass.playHead = lead.playHead % BassSteps
            /\ bass.rootIdx = lead.playHead \div BassSteps)
    /\ [][(pc = "run" /\ tick' = tick + 1) =>
              (/\ bass.frame = lead.frame
               /\ (lead.playHead = 0 => bass.playHead = 0 /\ bass.rootIdx = 0))]_vars
    /\ BassSteps * RootSteps = LeadSteps

\* Step 32 of the second pass of the Lead pattern, at one frame a step: the
\* Bass has wrapped its root notes with the pattern and is on the second.
C24_Witness ==
    /\ lead.samplesPerQuarterNote = 1
    /\ lead.frame = LeadSteps + BassSteps + 1
    /\ bass.frame = lead.frame
    /\ lead.playHead = BassSteps
    /\ bass.playHead = 0
    /\ bass.rootIdx = 1

\* The frames of the first pass of the Lead pattern, in which the gate is 0.
MutedFrames == LeadSteps * lead.samplesPerQuarterNote

\* C25: while the Lead is muted the Delay is silent: up to the end of frame
\* 256 * samplesPerQuarterNote - 1 every cell of the Delay buffer and every
\* sample on audioOut is 0 and the emitted frame is the Bass sample alone; and
\* with 1 <= delayTime < 44100 audioOut is 0 in every frame before frame
\* 256 * samplesPerQuarterNote + delayTime.
C25_DelaySilentWhileMuted ==
    pc = "run" =>
        /\ delay.frame <= MutedFrames =>
              /\ \A i \in DOMAIN delay.buffer : delay.buffer[i] = Zero
              /\ delay.last = Zero
              /\ audioOut.value = Zero
        /\ (tick > 0 /\ tick <= MutedFrames) =>
              out = Mix([value |-> Sample(tick - 1), frame |-> tick - 1],
                        [value |-> 0, frame |-> tick - 1],
                        [value |-> Zero, frame |-> tick - 1])
        /\ (delay.delayTime \in 1..(BufferSize - 1)
                /\ audioOut.frame < MutedFrames + delay.delayTime) =>
              audioOut.value = Zero

\* Frame 256 + 3 at 9 Hz: the Delay puts out the first audible Lead sample,
\* that of frame 256, and the emitted frame carries it.
C25_Witness ==
    /\ rate = 9
    /\ delay.delayTime = 3
    /\ tick = MutedFrames + delay.delayTime + 1
    /\ audioOut.frame = MutedFrames + delay.delayTime
    /\ audioOut.value = Const(Sample(MutedFrames))
    /\ out.delay = audioOut

\* ------------------------------------------------- the Delay, bounded input
\* The Delay on its own at 9 Hz (delayTime 3), fed any samples of magnitude
\* at most BiboBound.
MaxBiboTicks == 10

BiboBound == 2

BiboInputs == {-BiboBound, 0, BiboBound}

BiboStep ==
    /\ delay.frame < MaxBiboTicks
    /\ \E x \in BiboInputs : DelayFeed(x)

BiboRates == {9}

InitBibo == InitWith(BiboRates)

NextBibo == Initialise \/ BiboStep

SpecBibo == InitBibo /\ [][NextBibo]_vars

\* v at feedbackLevel = FeedbackNum / FeedbackDen, times FeedbackDen^n for
\* n + 1 = Len(v) coefficients.
RECURSIVE Scaled(_)
Scaled(v) ==
    IF v = Zero THEN 0
    ELSE v[1] * Power(FeedbackDen, Len(v) - 1) + FeedbackNum * Scaled(Tail(v))

\* |v| <= M / (1 - feedbackLevel)
WithinBibo(v, M) ==
    (FeedbackDen - FeedbackNum) * abs(Scaled(v)) <= M * Power(FeedbackDen, Len(v))

\* C26: with feedback 0.35 and every sample on audioIn of magnitude at most
\* M, every cell of the Delay buffer and every sample on audioOut has
\* magnitude at most M / (1 - 0.35).
C26_BoundedOutput ==
    (pc = "run" /\ \A t \in DOMAIN hist.in : abs(hist.in[t]) <= BiboBound) =>
        /\ \A i \in DOMAIN delay.buffer : WithinBibo(delay.buffer[i], BiboBound)
        /\ \A t \in DOMAIN hist.out : WithinBibo(hist.out[t], BiboBound)
        /\ WithinBibo(audioOut.value, BiboBound)
        /\ WithinBibo(delay.last, BiboBound)

\* Ten frames of the largest input: the cell written in frame 9 holds
\* M * (1 + 0.35 + 0.35^2 + 0.35^3), and audioOut the cell of frame 6.
C26_Witness ==
    /\ delay.frame = 10
    /\ BufferAt(delay, 9) = <<BiboBound, BiboBound, BiboBound, BiboBound>>
    /\ audioOut.value = <<BiboBound, BiboBound, BiboBound>>

\* ----------------------------------------------------------------- Switch
\* setEndpoint calls the model lets one Switch take, its constructor's
\* included.
MaxSwitchEndpoints == 3

\* Values the backend reports for a boolean parameter.
SwitchValues == {Num(0), Num(1)}

\* newValue > 0.5 of a whole number.
AboveHalf(x) == x.kind = "number" /\ x.v >= 1

\* A Switch after super(): clickListeners counts the listeners of "click"
\* registered on the element.
SwitchBlank ==
    [patchConnection |-> NoConnection, endpointInfo |-> NoEndpoint,
     defaultValue |-> Undefined, listener |-> NoListener, isConnected |-> FALSE,
     listeners |-> {}, sent |-> << >>,
     last |-> [op |-> "constructor", value |-> Undefined, threw |-> FALSE],
     currentValue |-> FALSE, clickListeners |-> 0]

Switch_valueChanged(g, newValue) ==
    [g EXCEPT !.currentValue = AboveHalf(newValue)]

\* Switch.setEndpoint: valueChanged (this.currentValue) is given a boolean,
\* and true > 0.5 is true; the arrow function listening to "click" is a new
\* one on every call.
Switch_setEndpoint(g, patchConnection, endpointInfo) ==
    LET g1 == setEndpoint(g, patchConnection, endpointInfo)
    IN  IF g1.last.threw THEN g1
        ELSE [g1 EXCEPT !.currentValue = AboveHalf(g1.defaultValue),
                        !.clickListeners = @ + 1]

\* new Switch (patchConnection, endpointInfo)
Switch(patchConnection, endpointInfo) ==
    Switch_setEndpoint(Calling(SwitchBlank, "Switch", Undefined),
                       patchConnection, endpointInfo)

\* The first n listeners of "click" run, each
\* this.setValueAsGesture (this.currentValue ? 0 : 1.0).
RECURSIVE ClickListenersRun(_, _)
ClickListenersRun(g, n) ==
    IF n = 0 THEN g
    ELSE setValueAsGesture(ClickListenersRun(g, n - 1),
                           IF g.currentValue THEN Num(0) ELSE Num(1))

\* One click on the element: every registered listener runs.
Switch_click(g) == ClickListenersRun(g, g.clickListeners)

SwitchSetEndpoint(patchConnection, endpointInfo) ==
    /\ gui.clickListeners < MaxSwitchEndpoints
    /\ gui' = Switch_setEndpoint(Calling(gui, "setEndpoint", Undefined),
                                 patchConnection, endpointInfo)
    /\ UNCHANGED Engine

SwitchClick ==
    /\ gui' = Switch_click(Calling(gui, "click", Undefined))
    /\ UNCHANGED Engine

\* The PatchConnection reports a value to the listener the control registered.
SwitchValueChanged(newValue) ==
    /\ gui.listener.defined
    /\ gui' = Switch_valueChanged(Calling(gui, "valueChanged", newValue),
                                  newValue)
    /\ UNCHANGED Engine

InitSwitch ==
    /\ InitEngine({PhasorRate})
    /\ probe = ProbeInit
    /\ gui \in {Switch(c, e) : c \in Connections \cup {NoConnection},
                               e \in EndpointInfos}

NextSwitch ==
    \/ \E c \in Connections \cup {NoConnection}, e \in EndpointInfos :
          SwitchSetEndpoint(c, e)
    \/ SwitchClick
    \/ \E v \in SwitchValues : SwitchValueChanged(v)
    \/ ConnectedCallback
    \/ DisconnectedCallback

SpecSwitch == InitSwitch /\ [][NextSwitch]_vars

\* C27: one click on a Switch attached to a PatchConnection sends exactly one
\* gesture start, value, gesture end, the value being 0 if currentValue is
\* true and 1 otherwise, however many times setEndpoint has been called on
\* the Switch before.
C27_ClickSendsOneGesture ==
    (gui.last.op = "click" /\ Attached) =>
        gui.sent = GestureOf(IF gui.currentValue THEN Num(0) ELSE Num(1))

\* ------------------------------------------------------------------- Knob
\* The number 1.0 in the units Knob values are counted in, and one degree in
\* the units rotations are counted in: with these every value and rotation
\* below is a whole number.
KnobOne == 1056

RotationOne == 4

\* const maxKnobRotation = 132 (degrees)
maxKnobRotation == 132 * RotationOne

\* Gestures the model lets one Knob start.
MaxKnobGestures == 2

\* annotation.min and annotation.max of a parameter: neither given, -1 .. 0,
\* and 0 .. 2.
KnobRanges ==
    {<<Undefined, Undefined>>, <<Num(-KnobOne), Num(0)>>,
     <<Num(0), Num(2 * KnobOne)>>}

KnobInfos ==
    {[defined |-> TRUE, endpointID |-> "e1", init |-> Undefined,
      defaultValue |-> d, min |-> r[1], max |-> r[2]] :
        r \in KnobRanges, d \in {Undefined, Num(KnobOne)}}

\* Values the backend reports.
KnobValues == {Num(-KnobOne), Num(0), Num(KnobOne)}

\* event.screenY, event.movementY and event.shiftKey of a mouse event.
ScreenYs == {0, 88}

MovementYs == {-200, 88, 200}

\* remap (source, sourceFrom, sourceTo, targetFrom, targetTo)
remap(source, sourceFrom, sourceTo, targetFrom, targetTo) ==
    targetFrom + Trunc((source - sourceFrom) * (targetTo - targetFrom),
                       sourceTo - sourceFrom)

Knob_toValue(g, knobRotation) ==
    remap(knobRotation, -maxKnobRotation, maxKnobRotation, g.min, g.max)

toRotation(g, value) ==
    remap(value, g.min, g.max, -maxKnobRotation, maxKnobRotation)

\* clamp (rotation - delta, -maxKnobRotation, maxKnobRotation)
nextRotation(rotation, delta) ==
    clamp(rotation - delta, -maxKnobRotation, maxKnobRotation)

\* A Knob after super().  mouseDownListeners counts the listeners of
\* "mousedown" on the element; windowMouseMove and windowMouseUp tell whether
\* onMouseMove and onMouseUp are registered on window.  starts and ends count
\* the gesture starts and ends handed to a PatchConnection so far, and open
\* tells whether the last of them was a start.
KnobBlank ==
    [patchConnection |-> NoConnection, endpointInfo |-> NoEndpoint,
     defaultValue |-> Undefined, listener |-> NoListener, isConnected |-> FALSE,
     listeners |-> {}, sent |-> << >>,
     last |-> [op |-> "constructor", value |-> Undefined, threw |-> FALSE],
     min |-> 0, max |-> 0, rotation |-> 0,
     accumulatedRotation |-> Undefined, previousScreenY |-> Undefined,
     mouseDownListeners |-> 0, windowMouseMove |-> FALSE,
     windowMouseUp |-> FALSE, starts |-> 0, ends |-> 0, open |-> FALSE]

\* The calls of method among the calls in sent.
CallsOf(sent, method) == {i \in DOMAIN sent : sent[i].method = method}

\* The gesture calls of the call that has just run, counted.
Tally(g) ==
    LET s == Cardinality(CallsOf(g.sent, "sendParameterGestureStart"))
        e == Cardinality(CallsOf(g.sent, "sendParameterGestureEnd"))
    IN  [g EXCEPT !.starts = @ + s, !.ends = @ + e,
                  !.open = IF e > 0 THEN FALSE ELSE IF s > 0 THEN TRUE ELSE @]

\* Knob.setEndpoint, the mouse part: min, max, the rotation of the default
\* value, and the listener of "mousedown".
Knob_setEndpoint(g, patchConnection, endpointInfo) ==
    LET g1 == setEndpoint(g, patchConnection, endpointInfo)
        g2 == [g1 EXCEPT !.min = OrElse(endpointInfo.min, 0),
                         !.max = OrElse(endpointInfo.max, KnobOne)]
    IN  IF g1.last.threw THEN g1
        ELSE [g2 EXCEPT !.rotation = toRotation(g2, g2.defaultValue.v),
                        !.mouseDownListeners = @ + 1]

\* new Knob (patchConnection, endpointInfo)
Knob(patchConnection, endpointInfo) ==
    Knob_setEndpoint(Calling(KnobBlank, "Knob", Undefined),
                     patchConnection, endpointInfo)

Knob_valueChanged(g, newValue) ==
    [g EXCEPT !.rotation = toRotation(g, newValue.v)]

\* onMouseUp without window.removeEventListener ("mousemove", onMouseMove).
onMouseUpKeepMouseMove(g) ==
    endGesture([g EXCEPT !.previousScreenY = Undefined,
                         !.accumulatedRotation = Undefined,
                         !.windowMouseUp = FALSE])

onMouseDown(g, screenY) ==
    LET g1 == beginGesture([g EXCEPT !.previousScreenY = Num(screenY),
                                     !.accumulatedRotation = Num(g.rotation)])
    IN  [g1 EXCEPT !.windowMouseMove = TRUE, !.windowMouseUp = TRUE]

onMouseMove(g, movementY, screenY, shiftKey) ==
    LET workaround == movementY = screenY
        my    == IF workaround THEN screenY - g.previousScreenY.v ELSE movementY
        delta == IF shiftKey THEN Trunc(my * RotationOne, 4)
                 ELSE Trunc(my * 3 * RotationOne, 2)
        acc   == nextRotation(g.accumulatedRotation.v, delta)
        g1    == [g EXCEPT !.previousScreenY = Num(screenY),
                           !.accumulatedRotation = Num(acc)]
    IN  setValue(g1, Num(Knob_toValue(g1, acc)))

onMouseUp(g) ==
    endGesture([g EXCEPT !.previousScreenY = Undefined,
                         !.accumulatedRotation = Undefined,
                         !.windowMouseMove = FALSE,
                         !.windowMouseUp = FALSE])

\* A mousedown on the element: its listener runs.
KnobMouseDown(screenY) ==
    /\ gui.starts < MaxKnobGestures
    /\ gui' = Tally(onMouseDown(Calling(gui, "mousedown", Num(screenY)),
                                screenY))
    /\ UNCHANGED Engine

\* A mousemove anywhere: onMouseMove runs if it is registered on window.
KnobMouseMove(movementY, screenY, shiftKey) ==
    /\ gui' = LET g == Calling(gui, "mousemove", Num(movementY))
              IN  IF g.windowMouseMove
                  THEN Tally(onMouseMove(g, movementY, screenY, shiftKey))
                  ELSE g
    /\ UNCHANGED Engine

\* A mouseup anywhere: onMouseUp runs if it is registered on window.
KnobMouseUp ==
    /\ gui' = LET g == Calling(gui, "mouseup", Undefined)
              IN  IF g.windowMouseUp THEN Tally(onMouseUp(g)) ELSE g
    /\ UNCHANGED Engine

\* The PatchConnection reports a value to the listener the control registered.
KnobValueChanged(newValue) ==
    /\ gui.listener.defined
    /\ gui' = Knob_valueChanged(Calling(gui, "valueChanged", newValue),
                                newValue)
    /\ UNCHANGED Engine

InitKnob ==
    /\ InitEngine({PhasorRate})
    /\ probe = ProbeInit
    /\ gui \in {Knob(c, e) : c \in {"c1", NoConnection}, e \in KnobInfos}

NextKnob ==
    \/ \E y \in ScreenYs : KnobMouseDown(y)
    \/ \E m \in MovementYs, y \in ScreenYs, k \in BOOLEAN :
          KnobMouseMove(m, y, k)
    \/ KnobMouseUp
    \/ \E v \in KnobValues : KnobValueChanged(v)
    \/ ConnectedCallback
    \/ DisconnectedCallback

SpecKnob == InitKnob /\ [][NextKnob]_vars

\* The values the call that has just run handed to a PatchConnection.
ValuesSent(g) ==
    {g.sent[i].value.v : i \in CallsOf(g.sent, "sendEventOrValue")}

\* The range of the parameter: annotation.min and annotation.max, 0 and 1
\* where the annotation gives none.
ParameterMin(endpointInfo) ==
    IF endpointInfo.min.kind = "number" THEN endpointInfo.min.v ELSE 0

ParameterMax(endpointInfo) ==
    IF endpointInfo.max.kind = "number" THEN endpointInfo.max.v ELSE KnobOne

\* Values are sent by a mousemove only while a gesture is open, none once a
\* mouseup has been handled; the gesture ends sent never outnumber the
\* starts; and every value sent is that of a rotation within -132 .. 132
\* degrees, between the min and max the control computed.
Knob_MouseGestures ==
    /\ [](gui.ends <= gui.starts)
    /\ [][(gui'.last.op = "mousemove" /\ gui'.sent # << >>) =>
              (/\ gui.open /\ gui'.open
               /\ gui.windowMouseMove
               /\ gui'.accumulatedRotation.v \in -maxKnobRotation..maxKnobRotation
               /\ ValuesSent(gui') = {Knob_toValue(gui', gui'.accumulatedRotation.v)}
               /\ \A v \in ValuesSent(gui') : v \in gui.min..gui.max)]_vars
    /\ [][(gui'.last.op = "mousemove" /\ ~gui.open) => gui'.sent = << >>]_vars
    /\ [][(gui'.last.op = "mouseup" /\ gui'.sent # << >>) =>
              ~gui'.windowMouseMove /\ ~gui'.open]_vars

\* C28: for any sequence of mousedown, mousemove and mouseup events on a
\* Knob, a mousemove sends values only between a gesture start and the
\* gesture end that follows it, the gesture ends sent never outnumber the
\* gesture starts, and every value sent lies between the parameter's min and
\* max.
C28_KnobMouseGestures ==
    /\ Knob_MouseGestures
    /\ [][gui'.last.op = "mousemove" =>
              \A v \in ValuesSent(gui') :
                  /\ v >= ParameterMin(gui.endpointInfo)
                  /\ v <= ParameterMax(gui.endpointInfo)]_vars

\* ------------------------------------------------- toIndex on its own
\* The option list setEndpoint computes for an endpoint and toIndex of one
\* value, on their own.
IndexValues == {n * 10 : n \in -3..21}

IndexCall(endpointInfo, value) ==
    probe' = [called |-> TRUE, endpointInfo |-> endpointInfo,
              range |-> OptionsRange(endpointInfo), value |-> value,
              index |-> toIndex(OptionsRange(endpointInfo), value)]

InitIndex ==
    /\ InitEngine({PhasorRate})
    /\ gui = OptionsBlank
    /\ probe = [called |-> FALSE]

NextIndex ==
    /\ ~probe.called
    /\ \E e \in OptionsInfos, v \in IndexValues : IndexCall(e, v)
    /\ UNCHANGED <<rate, pc, tick, bass, lead, delay, bassOut, leadOut,
                   audioOut, out, hist, phasor, gui>>

SpecIndex == InitIndex /\ [][NextIndex]_vars

\* C29: for the option list of every Options control, made from a text list
\* or from a discrete min / max / step range, toIndex of the value of option i
\* is i, and toIndex of a value within min .. max is an index of the list.
C29_ToIndexIdentity ==
    probe.called =>
        LET options == probe.range.options
        IN  /\ \A i \in 0..(Len(options) - 1) :
                  options[i + 1] = probe.value => probe.index = i
            /\ probe.value \in probe.range.min..probe.range.max =>
                  probe.index < Len(options)

====
